---- MODULE Spec2Model ----
(***************************************************************************)
(* Model of the streaming session coordinator of src/src/index.js          *)
(* (main(): `current`, analyticsSnapshot, stopStreaming, startStreaming    *)
(* and its connection / ffmpeg / timer callbacks, POST /start, POST /stop).*)
(*                                                                         *)
(* Node runs every handler to completion on one thread, so each handler    *)
(* (up to its next real suspension point) is one action.  The only real    *)
(* suspension inside startStreaming is `await resolveMediaUrl(url)`;       *)
(* `await stopStreaming()` resumes in a microtask, before any other        *)
(* request, callback or timer can run.                                     *)
(*                                                                         *)
(* The k-th call of startStreaming has id k.  The connection object it     *)
(* constructs and the ffmpeg child its Open handler spawns carry the same  *)
(* id, and the session record it assigns to `current` carries it in the    *)
(* bookkeeping field sid (0 for the record main() starts with).            *)
(***************************************************************************)
EXTENDS Integers, Sequences, FiniteSets, TLC

\* ------------------------------------------------------------------ bounds
MaxStarts == 2   \* calls of startStreaming
MaxEvents == 2   \* Transcript events delivered
MaxChunks == 1   \* ffmpeg stdout chunks delivered

\* ------------------------------------------------------- program constants
BytesPerSecond == 32000
TermDelay == 500
KillDelay == 1500
OpenBudget == 15000

Null == 0          \* null object reference (connection / ff ids start at 1)
NullTime == -1     \* null where the value is a number of seconds
NoSpeaker == "null"
NoUrl == "none"

StartIds == 1..MaxStarts

VARIABLES
  current,    \* the `current` session record
  calls,      \* per startStreaming call: where it stands
  conn,       \* per connection object: what the backend channel has seen / done
  ff,         \* per ffmpeg child: signals received, killed flag, exited
  timers,     \* pending setTimeout callbacks, in scheduling order
  emitted,    \* what the last handler passed to broadcast(), in order
  response,   \* HTTP status answered in the last step (0: none)
  lastOp,     \* which handler ran last (for /start: with which body; for
              \* Transcript: with which payload)
  sums,       \* bookkeeping: per speaker, sum of max(0,end-start) over finals
  sent,       \* bookkeeping: bytes the connection of `current` accepted
  run,        \* bookkeeping: speaker and first-word start of the earliest
              \* partial of the current uninterrupted run of partials
  before,     \* bookkeeping: per call awaiting resolution, `current` as the
              \* request found it
  nEvents,    \* Transcript events delivered so far
  nChunks     \* stdout chunks delivered so far

vars == <<current, calls, conn, ff, timers, emitted, response, lastOp,
          sums, sent, run, before, nEvents, nChunks>>

\* ------------------------------------------------------------ input domains
Times == 0..2
Speakers == {"0", "1"}
Word(s, e, sp) == [start |-> s, end |-> e, speaker |-> sp]
WordSpeakers == Speakers \cup {NoSpeaker}
\* word lists: one word with every timing, and two words whose inner times
\* (first word's end, last word's start) differ from the outer ones
WordLists ==
  {<<Word(s, e, "0")>> : s \in Times, e \in Times}
  \cup {<<Word(1, 1, sp), Word(2, 2, "0")>> : sp \in WordSpeakers}
\* transcripts as character sequences over a letter and a blank: one token,
\* and two tokens with a leading blank and a run of two blanks
Texts == {<<"a">>, <<" ", "a", " ", " ", "a">>}
\* payloads the handler returns early on: no transcript, no words
EmptyEvents ==
  {[is_final |-> f, transcript |-> <<>>, words |-> <<Word(0, 1, "0")>>] : f \in BOOLEAN}
  \cup {[is_final |-> f, transcript |-> <<"a">>, words |-> <<>>] : f \in BOOLEAN}
\* every word list under the short text, every text under one word list
Events ==
  [is_final : BOOLEAN, transcript : {<<"a">>}, words : WordLists]
  \cup [is_final : BOOLEAN, transcript : Texts, words : {<<Word(0, 1, "0")>>}]
  \cup EmptyEvents
ChunkLengths == {BytesPerSecond}
\* bodies of POST /start: neither, mic, url
Requests == {[mic |-> FALSE, url |-> NoUrl], [mic |-> TRUE, url |-> NoUrl],
             [mic |-> FALSE, url |-> "u"]}

Max(a, b) == IF a >= b THEN a ELSE b

\* ------------------------------------------------------------- the session
\* speakerDurations is a Map: a function whose domain is the keys present
EmptyMap == [k \in {} |-> 0]

\* the object literal main() starts with, and the one startStreaming assigns
\* (device is passed through to ffmpeg only and is left out)
InitialSession ==
  [sid |-> 0, connection |-> Null, ff |-> Null, opened |-> FALSE, closed |-> FALSE,
   mode |-> "null", url |-> NoUrl, platform |-> "null",
   speakerDurations |-> EmptyMap,
   lastPartialSpeaker |-> NoSpeaker, lastPartialStart |-> NullTime,
   startTimeMs |-> Null, bytesSent |-> 0, wordsCount |-> 0]

NewSession(id, mic, url) ==
  [InitialSession EXCEPT
     !.sid = id,
     !.mode = IF mic THEN "mic" ELSE "url",
     !.url = url,
     !.platform = IF url # NoUrl THEN "site" ELSE IF mic THEN "os" ELSE "null"]

\* ------------------------------------------------- the world a handler sees
\* Handlers are written as functions from world to world, so that a handler
\* calling another (startStreaming calling stopStreaming) composes them.
\* out collects the arguments of broadcast() in call order.
World == [current |-> current, conn |-> conn, ff |-> ff, timers |-> timers, out |-> <<>>]

NewConn == [constructed |-> FALSE, finished |-> FALSE, opened |-> FALSE, closed |-> FALSE]
NewFf == [spawned |-> FALSE, signals |-> <<>>, killed |-> FALSE, exited |-> FALSE]

broadcast(W, obj) == [W EXCEPT !.out = Append(@, obj)]

Status(cur) ==
  IF cur.connection # Null THEN (IF cur.opened THEN "streaming" ELSE "connecting") ELSE "idle"

\* uptimeMs (a wall-clock difference) is left out; with chunk lengths that are
\* multiples of 32000 the division is exact
analyticsSnapshot(cur) ==
  [type |-> "analytics", mode |-> cur.mode, platform |-> cur.platform, url |-> cur.url,
   status |-> Status(cur), wordsCount |-> cur.wordsCount,
   speakerDurations |-> cur.speakerDurations,
   ingestedSeconds |-> cur.bytesSent \div BytesPerSecond]

\* connection.finish(): the channel is told to finish
finish(W, c) == [W EXCEPT !.conn[c].finished = TRUE]

\* child.kill(sig): delivers the signal and sets child.killed, unless the
\* child has already exited (then kill() returns false and changes nothing)
kill(W, f, sig) ==
  IF W.ff[f].exited THEN W
  ELSE [W EXCEPT !.ff[f].signals = Append(@, sig), !.ff[f].killed = TRUE]

\* setTimeout(cb, delay): by and target record, for the properties only, the
\* session and the child that were current when the timer was armed
Timer(kind, by, target) == [kind |-> kind, by |-> by, target |-> target]
setTimeout(W, kind, by, target) == [W EXCEPT !.timers = Append(@, Timer(kind, by, target))]

Delay(kind) ==
  CASE kind = "SIGTERM" -> TermDelay
    [] kind = "SIGKILL" -> KillDelay
    [] kind = "failfast" -> OpenBudget

\* ------------------------------------------------------------ stopStreaming
\* the escalation callbacks read `current` when they run
escalate(W, sig) ==
  IF W.current.ff # Null /\ ~W.ff[W.current.ff].killed
  THEN kill(W, W.current.ff, sig)
  ELSE W

stopFf(W) ==
  IF W.current.ff # Null
  THEN setTimeout(
         setTimeout(kill(W, W.current.ff, "SIGINT"),
                    "SIGTERM", W.current.sid, W.current.ff),
         "SIGKILL", W.current.sid, W.current.ff)
  ELSE W

stopFinish(W) ==
  IF W.current.connection # Null THEN finish(W, W.current.connection) ELSE W

stopStreaming(W) ==
  IF W.current.closed THEN W
  ELSE LET W1 == [W EXCEPT !.current.closed = TRUE]
           W2 == stopFinish(W1)
           W3 == stopFf(W2)
           W4 == [W3 EXCEPT !.current.connection = Null, !.current.ff = Null]
       IN  broadcast(W4, analyticsSnapshot(W4.current))

\* ----------------------------------------------------------- startStreaming
\* up to `await resolveMediaUrl(url)`
startPrior(W) == IF W.current.connection # Null THEN stopStreaming(W) ELSE W

startBegin(W, id, mic, url) ==
  [startPrior(W) EXCEPT !.current = NewSession(id, mic, url)]

NeedsResolve(mic, url) == ~mic /\ url # NoUrl

\* from deepgram.listen.live(...) to the end: the connection is constructed,
\* stored in whatever `current` is now, announced, and the fail-fast timer armed
startConnect(W, id) ==
  LET W1 == [W EXCEPT !.conn[id].constructed = TRUE, !.current.connection = id]
      W2 == broadcast(W1, analyticsSnapshot(W1.current))
  IN  setTimeout(W2, "failfast", id, Null)

\* ------------------------------------------------- callbacks of connection id
onOpen(W, id) ==
  LET W1 == [W EXCEPT !.current.opened = TRUE, !.current.startTimeMs = 1,
                      !.ff[id].spawned = TRUE, !.current.ff = id]
  IN  broadcast(W1, analyticsSnapshot(W1.current))

\* ff.stdout 'data': the counter moves before send(), which may throw
onData(W, id, len) == [W EXCEPT !.current.bytesSent = @ + len]

\* ff 'close'
onFfClose(W, id) == finish(W, id)

onClose(W, id) ==
  IF W.current.closed THEN W
  ELSE LET W1 == [W EXCEPT !.current.closed = TRUE]
           W2 == IF W1.current.ff # Null THEN kill(W1, W1.current.ff, "SIGINT") ELSE W1
           W3 == [W2 EXCEPT !.current.connection = Null, !.current.ff = Null]
       IN  broadcast(W3, analyticsSnapshot(W3.current))

onFailfast(W) ==
  IF ~W.current.opened /\ W.current.connection # Null
  THEN finish(W, W.current.connection)
  ELSE W

\* ------------------------------------------------------- Transcript handler
\* (text.match(/\S+/g) || []).length: the maximal runs of non-blank characters
TokenCountBySeparators(text) ==
  Cardinality({i \in 1..Len(text) : text[i] = " "}) + 1
TokenCount(text) ==
  Cardinality({i \in 1..Len(text) : text[i] # " " /\ (i = 1 \/ text[i - 1] = " ")})

\* x || d on numbers: 0 is falsy
OrElse(x, d) == IF x = 0 THEN d ELSE x
\* x ?? d with NullTime for null
Coalesce(x, d) == IF x = NullTime THEN d ELSE x

MapGet(m, k) == IF k \in DOMAIN m THEN m[k] ELSE 0
MapSet(m, k, v) == [x \in DOMAIN m \cup {k} |-> IF x = k THEN v ELSE m[x]]

segmentSpeaker(words) ==
  IF words[1].speaker = NoSpeaker THEN "unknown" ELSE words[1].speaker

segmentStart(words) == OrElse(words[1].start, 0)
segmentEnd(words) == OrElse(words[Len(words)].end, segmentStart(words))
segmentDurationUnclamped(words) == segmentEnd(words) - segmentStart(words)
segmentDuration(words) == Max(0, segmentEnd(words) - segmentStart(words))

\* the two early returns
DroppedOnlyNoWords(data) == Len(data.words) = 0
Dropped(data) == data.transcript = <<>> \/ Len(data.words) = 0

addDuration(m, sp, d) == MapSet(m, sp, OrElse(MapGet(m, sp), 0) + d)

onFinalKeepingPartial(W, data) ==
  LET sp == segmentSpeaker(data.words)
      W1 == [W EXCEPT !.current.speakerDurations =
                         addDuration(@, sp, segmentDuration(data.words))]
      W2 == broadcast(W1, [type |-> "final", replace |-> TRUE, speaker |-> sp,
                           text |-> data.transcript,
                           start |-> segmentStart(data.words),
                           end |-> segmentEnd(data.words),
                           speakerDurations |-> W1.current.speakerDurations])
  IN  broadcast(W2, analyticsSnapshot(W2.current))

onFinal(W, data) ==
  LET sp == segmentSpeaker(data.words)
      W1 == [W EXCEPT !.current.speakerDurations =
                         addDuration(@, sp, segmentDuration(data.words))]
      W2 == broadcast(W1, [type |-> "final", replace |-> TRUE, speaker |-> sp,
                           text |-> data.transcript,
                           start |-> segmentStart(data.words),
                           end |-> segmentEnd(data.words),
                           speakerDurations |-> W1.current.speakerDurations])
      W3 == broadcast(W2, analyticsSnapshot(W2.current))
  IN  [W3 EXCEPT !.current.lastPartialSpeaker = NoSpeaker,
                 !.current.lastPartialStart = NullTime]

onInterimReanchored(W, data) ==
  LET sp == segmentSpeaker(data.words)
      W1 == [W EXCEPT !.current.lastPartialSpeaker = sp,
                      !.current.lastPartialStart = data.words[1].start]
  IN  broadcast(W1, [type |-> "partial", speaker |-> sp, text |-> data.transcript,
                     start |-> data.words[1].start,
                     end |-> data.words[Len(data.words)].end,
                     speakerDurations |-> W1.current.speakerDurations])

onInterim(W, data) ==
  LET sp == segmentSpeaker(data.words)
      W1 == IF W.current.lastPartialSpeaker # sp
            THEN [W EXCEPT !.current.lastPartialSpeaker = sp,
                           !.current.lastPartialStart = data.words[1].start]
            ELSE W
      estStart == Coalesce(W1.current.lastPartialStart, data.words[1].start)
      estEnd == data.words[Len(data.words)].end
  IN  broadcast(W1, [type |-> "partial", speaker |-> sp, text |-> data.transcript,
                     start |-> estStart, end |-> estEnd,
                     speakerDurations |-> W1.current.speakerDurations])

onTranscriptIgnoringIsFinal(W, id, data) ==
  IF Dropped(data) THEN W
  ELSE onFinal([W EXCEPT !.current.wordsCount = @ + TokenCount(data.transcript)], data)

onTranscript(W, id, data) ==
  IF Dropped(data) THEN W
  ELSE LET W1 == [W EXCEPT !.current.wordsCount = @ + TokenCount(data.transcript)]
       IN  IF data.is_final THEN onFinal(W1, data) ELSE onInterim(W1, data)

\* ------------------------------------------------------------------ actions
\* what lastOp records of a step: the handler, the body of a /start request,
\* the payload of a Transcript event
NoData == [is_final |-> FALSE, transcript |-> <<>>, words |-> <<>>]
Op(name) == [op |-> name, mic |-> FALSE, url |-> NoUrl, data |-> NoData]

AllSpeakers == Speakers \cup {"unknown"}
NoSums == [sp \in AllSpeakers |-> 0]
NoRun == [speaker |-> NoSpeaker, start |-> NullTime]

Init ==
  /\ current = InitialSession
  /\ calls = [i \in StartIds |-> "none"]
  /\ conn = [i \in StartIds |-> NewConn]
  /\ ff = [i \in StartIds |-> NewFf]
  /\ timers = <<>>
  /\ emitted = <<>>
  /\ response = 0
  /\ lastOp = Op("init")
  /\ sums = NoSums
  /\ run = NoRun
  /\ sent = 0
  /\ before = [i \in StartIds |-> InitialSession]
  /\ nEvents = 0
  /\ nChunks = 0

\* what a handler leaves behind
Commit(W) ==
  /\ current' = W.current
  /\ conn' = W.conn
  /\ ff' = W.ff
  /\ timers' = W.timers
  /\ emitted' = W.out

\* the bookkeeping follows the session record: a new record starts from zero
Bookkeep(W, s, b) ==
  /\ sums' = IF W.current.sid # current.sid THEN NoSums ELSE s
  /\ sent' = IF W.current.sid # current.sid THEN 0 ELSE b
  /\ run' = IF W.current.sid # current.sid THEN NoRun ELSE run

\* app.post('/start'): the 400 answer
BadRequestNegated(mic, url) == ~mic /\ url # NoUrl
BadRequest(mic, url) == ~mic /\ url = NoUrl

PostStartRejected(mic, url) ==
  /\ BadRequest(mic, url)
  /\ Commit(World)
  /\ response' = 400
  /\ lastOp' = [Op("start") EXCEPT !.mic = mic, !.url = url]
  /\ UNCHANGED <<before, calls, sums, sent, run, nEvents, nChunks>>

\* app.post('/start') -> startStreaming, up to its first real suspension
PostStart(id, mic, url) ==
  /\ ~BadRequest(mic, url)
  /\ calls[id] = "none"
  /\ \A j \in StartIds : j < id => calls[j] # "none"
  /\ LET W == startBegin(World, id, mic, url)
     IN  IF NeedsResolve(mic, url)
         THEN /\ Commit(W)
              /\ Bookkeep(W, sums, sent)
              /\ calls' = [calls EXCEPT ![id] = "resolving"]
              /\ before' = [before EXCEPT ![id] = current]
              /\ response' = 0
         ELSE /\ Commit(startConnect(W, id))
              /\ Bookkeep(W, sums, sent)
              /\ calls' = [calls EXCEPT ![id] = "done"]
              /\ before' = before
              /\ response' = 200
  /\ lastOp' = [Op("start") EXCEPT !.mic = mic, !.url = url]
  /\ UNCHANGED <<nEvents, nChunks>>

\* resolveMediaUrl returned: startStreaming runs to its end
ResolveOk(id) ==
  /\ calls[id] = "resolving"
  /\ Commit(startConnect(World, id))
  /\ calls' = [calls EXCEPT ![id] = "done"]
  /\ before' = [before EXCEPT ![id] = InitialSession]
  /\ response' = 200
  /\ lastOp' = Op("resolved")
  /\ UNCHANGED <<sums, sent, run, nEvents, nChunks>>

\* resolveMediaUrl threw: startStreaming rejects, /start answers 500
ResolveFail(id) ==
  /\ calls[id] = "resolving"
  /\ Commit(World)
  /\ calls' = [calls EXCEPT ![id] = "failed"]
  /\ before' = [before EXCEPT ![id] = InitialSession]
  /\ response' = 500
  /\ lastOp' = Op("resolveFailed")
  /\ UNCHANGED <<sums, sent, run, nEvents, nChunks>>

\* app.post('/stop')
PostStop ==
  /\ Commit(stopStreaming(World))
  /\ response' = 200
  /\ lastOp' = Op("stop")
  /\ UNCHANGED <<before, calls, sums, sent, run, nEvents, nChunks>>

\* LiveTranscriptionEvents.Open of connection id.  The backend may confirm a
\* connection that was told to finish before it had opened.
Open(id) ==
  /\ conn[id].constructed /\ ~conn[id].opened /\ ~conn[id].closed
  /\ Commit(onOpen([World EXCEPT !.conn[id].opened = TRUE], id))
  /\ lastOp' = Op("open")
  /\ response' = 0
  /\ UNCHANGED <<before, calls, sums, sent, run, nEvents, nChunks>>

\* LiveTranscriptionEvents.Close of connection id: after finish(), or because
\* the backend closed the channel
Close(id) ==
  /\ conn[id].constructed /\ ~conn[id].closed
  /\ Commit(onClose([World EXCEPT !.conn[id].closed = TRUE], id))
  /\ lastOp' = Op("close")
  /\ response' = 0
  /\ UNCHANGED <<before, calls, sums, sent, run, nEvents, nChunks>>

\* LiveTranscriptionEvents.Error of connection id: console.error only
Error(id) ==
  /\ conn[id].constructed /\ ~conn[id].closed
  /\ Commit(World)
  /\ lastOp' = Op("error")
  /\ response' = 0
  /\ UNCHANGED <<before, calls, sums, sent, run, nEvents, nChunks>>

\* the final events of `data` as the duration property reads them: speaker of
\* the first word, last word's end minus first word's start, at least 0
Attributed(data) ==
  IF data.words[1].speaker \in Speakers THEN data.words[1].speaker ELSE "unknown"
Counted(data) == Max(0, data.words[Len(data.words)].end - data.words[1].start)

\* LiveTranscriptionEvents.Transcript of connection id: between its Open and
\* its Close
CanDeliver(id) == conn[id].opened /\ ~conn[id].closed /\ nEvents < MaxEvents

Transcript(id, data) ==
  /\ CanDeliver(id)
  /\ Commit(onTranscript(World, id, data))
  /\ nEvents' = nEvents + 1
  /\ sums' = IF ~Dropped(data) /\ data.is_final
             THEN [sums EXCEPT ![Attributed(data)] = @ + Counted(data)]
             ELSE sums
  /\ run' = IF data.transcript = <<>> \/ data.words = <<>> THEN run
            ELSE IF data.is_final THEN NoRun
            ELSE IF run.speaker = Attributed(data) THEN run
            ELSE [speaker |-> Attributed(data), start |-> data.words[1].start]
  /\ lastOp' = [Op(IF data.is_final THEN "final" ELSE "interim") EXCEPT !.data = data]
  /\ response' = 0
  /\ UNCHANGED <<before, calls, sent, nChunks>>

\* ff.stdout 'data' of the child spawned for connection id; ok: send() did
\* not throw (it cannot succeed on a closed channel)
Data(id, len, ok) ==
  /\ ff[id].spawned /\ ~ff[id].exited
  /\ nChunks < MaxChunks
  /\ conn[id].closed => ~ok
  /\ Commit(onData(World, id, len))
  /\ nChunks' = nChunks + 1
  /\ sent' = IF ok /\ id = current.sid THEN sent + len ELSE sent
  /\ lastOp' = Op("data")
  /\ response' = 0
  /\ UNCHANGED <<before, calls, sums, run, nEvents>>

\* ff 'close' of the child spawned for connection id: it exited, by itself or
\* after a signal
FfExit(id) ==
  /\ ff[id].spawned /\ ~ff[id].exited
  /\ Commit(onFfClose([World EXCEPT !.ff[id].exited = TRUE], id))
  /\ lastOp' = Op("ffclose")
  /\ response' = 0
  /\ UNCHANGED <<before, calls, sums, sent, run, nEvents, nChunks>>

\* a pending timer may run unless one armed earlier is due no later
CanFire(k) == \A j \in 1..(k - 1) : Delay(timers[j].kind) > Delay(timers[k].kind)

Without(seq, k) == SubSeq(seq, 1, k - 1) \o SubSeq(seq, k + 1, Len(seq))

timerBody(W, kind) ==
  IF kind = "failfast" THEN onFailfast(W) ELSE escalate(W, kind)

TimerFire(k) ==
  /\ k \in 1..Len(timers)
  /\ CanFire(k)
  /\ Commit(timerBody([World EXCEPT !.timers = Without(timers, k)], timers[k].kind))
  /\ lastOp' = Op(timers[k].kind)
  /\ response' = 0
  /\ UNCHANGED <<before, calls, sums, sent, run, nEvents, nChunks>>

\* requests, channel and child lifecycle and timers of the calls in ids
Lifecycle(ids) ==
  \/ \E r \in Requests : PostStartRejected(r.mic, r.url)
  \/ \E id \in ids, r \in Requests : PostStart(id, r.mic, r.url)
  \/ \E id \in ids : ResolveOk(id)
  \/ \E id \in ids : ResolveFail(id)
  \/ PostStop
  \/ \E id \in ids : Open(id)
  \/ \E id \in ids : Close(id)
  \/ \E id \in ids : Error(id)
  \/ \E id \in ids : FfExit(id)
  \/ \E k \in 1..(3 * MaxStarts) : TimerFire(k)

\* Spec: up to MaxStarts calls of startStreaming racing with stop requests,
\* channel and child events and timers; no recognition events, no audio.
Next == Lifecycle(StartIds)
Spec == Init /\ [][Next]_vars

\* SpecEvents: one call of startStreaming with everything that can happen to
\* its session, and up to MaxEvents recognition events.
NextEvents ==
  \/ Lifecycle({1})
  \/ \E data \in Events : Transcript(1, data)
SpecEvents == Init /\ [][NextEvents]_vars

\* SpecAudio: one call of startStreaming and up to MaxChunks audio chunks.
NextAudio ==
  \/ Lifecycle({1})
  \/ \E len \in ChunkLengths, ok \in BOOLEAN : Data(1, len, ok)
SpecAudio == Init /\ [][NextAudio]_vars

\* SpecLive: one call of startStreaming under the scheduling the liveness
\* properties assume: the event loop runs every pending timer, and a channel
\* that was told to finish answers with its Close event.
TimersRun == \E k \in 1..(3 * MaxStarts) : TimerFire(k)
FinishAnswered == conn[1].finished /\ Close(1)
NextLive == Lifecycle({1})
SpecLive == Init /\ [][NextLive]_vars /\ WF_vars(TimersRun) /\ WF_vars(FinishAnswered)

\* --------------------------------------------------------------- properties
\* an adapter is live from its construction until it is told to end or ends
ConnLive(c) == conn[c].constructed /\ ~conn[c].finished /\ ~conn[c].closed
FfLive(f) == ff[f].spawned /\ ff[f].signals = <<>> /\ ~ff[f].exited
LiveConns == {c \in StartIds : ConnLive(c)}
LiveFfs == {f \in StartIds : FfLive(f)}

\* C1: in every reachable state at most one channel adapter and at most one
\* audio source is live (constructed / spawned and not yet told to finish /
\* signalled).
C1_SingleTenancy == Cardinality(LiveConns) <= 1 /\ Cardinality(LiveFfs) <= 1

\* a step in which call id of startStreaming begins
StartStep(id) == calls[id] = "none" /\ calls'[id] # "none"

\* C2: whenever start() is called while the session record holds an adapter,
\* that channel has been told to finish and that audio source has been
\* signalled by the end of the step, hence before the new channel is constructed.
C2_PriorStoppedFirst ==
  [][\A id \in StartIds : StartStep(id) =>
        /\ current.connection # Null /\ ~conn[current.connection].closed
             => conn'[current.connection].finished
        /\ current.ff # Null /\ ~ff[current.ff].exited
             => ff'[current.ff].signals # <<>>]_vars

\* a step in which the Close event of connection id is handled
CloseStep(id) == ~conn[id].closed /\ conn'[id].closed

\* C3: the Close event of a superseded session's channel (one constructed by an
\* earlier call and not held by the current record) leaves the current
\* session's closed flag, connection and audio source alone and signals nothing.
C3_StaleCloseHarmless ==
  [][\A id \in StartIds :
        CloseStep(id) /\ id < current.sid /\ id # current.connection =>
          /\ current'.closed = current.closed
          /\ current'.connection = current.connection
          /\ current'.ff = current.ff
          /\ ff' = ff]_vars

Duration(sp) == MapGet(current.speakerDurations, sp)
DurationsMatch == \A sp \in AllSpeakers : Duration(sp) = sums[sp]

\* C4: within one session, speakerDurations[id] equals the sum of
\* max(0, end - start) over the final events attributed to that speaker (first
\* word's start, last word's end), and never decreases from one state to the next.
C4_DurationsAreSums ==
  /\ DurationsMatch
  /\ [][/\ DurationsMatch'
        /\ current'.sid = current.sid =>
             \A sp \in AllSpeakers : Duration(sp)' >= Duration(sp)]_vars

\* two final events of speaker "0" have been added up
C4_Witness == lastOp.op = "final" /\ Duration("0") = 3 /\ current.wordsCount >= 2

\* C5: a partial (interim) event leaves speakerDurations unchanged, and within a
\* session speakerDurations changes only in a step that handles a final event.
C5_OnlyFinalsCount ==
  [][/\ lastOp'.op = "interim" => current'.speakerDurations = current.speakerDurations
     /\ current'.sid = current.sid
          /\ current'.speakerDurations # current.speakerDurations
          => lastOp'.op = "final"]_vars

\* a partial was handled (and announced) after a final had counted
C5_Witness ==
  /\ lastOp.op = "interim" /\ Len(emitted) = 1 /\ emitted[1].type = "partial"
  /\ Duration("0") > 0

\* a step in which a Transcript event is handled
TranscriptStep == nEvents' = nEvents + 1

\* C6: a recognition event delivered after its session was stopped changes no
\* wordsCount, speakerDurations or pending partial and emits nothing.
C6_NoEffectAfterStop ==
  [][TranscriptStep /\ current.closed =>
        /\ current'.wordsCount = current.wordsCount
        /\ current'.speakerDurations = current.speakerDurations
        /\ current'.lastPartialSpeaker = current.lastPartialSpeaker
        /\ current'.lastPartialStart = current.lastPartialStart
        /\ emitted' = <<>>]_vars

\* C7: stop() on an active session (one the snapshot reports as connecting or
\* streaming) sets closed, emits one analytics notification in that step, and
\* the notification and the snapshot taken next both report idle.
C7_StopReportsIdle ==
  [][lastOp'.op = "stop" /\ Status(current) # "idle" =>
        /\ current'.closed
        /\ emitted' = <<analyticsSnapshot(current')>>
        /\ emitted'[1].status = "idle"]_vars

\* C8: stop() while the session is idle (also the record main() starts with)
\* or already closed changes no session field, signals no adapter, emits nothing.
C8_StopIdempotent ==
  [][lastOp'.op = "stop" /\ (current.closed \/ Status(current) = "idle") =>
        /\ current' = current
        /\ conn' = conn /\ ff' = ff /\ timers' = timers
        /\ emitted' = <<>>]_vars

\* the earliest pending timer of a kind: the one that runs next of that kind
FirstTimer(kind) ==
  timers[CHOOSE k \in 1..Len(timers) :
           timers[k].kind = kind /\ \A j \in 1..(k - 1) : timers[j].kind # kind]
TimerStep(kind) == lastOp'.op = kind /\ Len(timers') = Len(timers) - 1
Has(seq, x) == \E i \in 1..Len(seq) : seq[i] = x

\* C9: when the short grace window of a stop() elapses and the stopped audio
\* source has not exited it is sent SIGTERM, and when the longer window elapses
\* and it still has not exited it is sent SIGKILL (after the SIGTERM).
C9_Escalation ==
  [][/\ TimerStep("SIGTERM") /\ ~ff[FirstTimer("SIGTERM").target].exited
          => Has(ff'[FirstTimer("SIGTERM").target].signals, "SIGTERM")
     /\ TimerStep("SIGKILL") /\ ~ff[FirstTimer("SIGKILL").target].exited
          => /\ Has(ff'[FirstTimer("SIGKILL").target].signals, "SIGTERM")
             /\ Has(ff'[FirstTimer("SIGKILL").target].signals, "SIGKILL")]_vars

\* a /start request that names neither microphone nor URL was handled
NeitherStep == lastOp'.op = "start" /\ ~lastOp'.mic /\ lastOp'.url = NoUrl

\* C10: a start request with neither microphone nor URL is answered as a caller
\* error and mutates nothing: session record, adapters, calls and timers are
\* unchanged and nothing is emitted.
C10_BadRequestRejected ==
  [][NeitherStep =>
        /\ response' = 400
        /\ current' = current
        /\ conn' = conn /\ ff' = ff /\ timers' = timers /\ calls' = calls
        /\ emitted' = <<>>]_vars

\* rejected while a session with aggregates was streaming
C10_Witness ==
  /\ lastOp.op = "start" /\ ~lastOp.mic /\ lastOp.url = NoUrl /\ response = 400
  /\ Status(current) = "streaming" /\ current.wordsCount > 0

\* a step in which resolveMediaUrl of call id throws
FailStep(id) == calls[id] = "resolving" /\ calls'[id] = "failed"

\* C11: when URL resolution fails the start fails to its caller and the session
\* that existed before the start request is exactly as the request found it.
C11_FailedStartMutatesNothing ==
  [][\A id \in StartIds : FailStep(id) =>
        /\ response' = 500
        /\ current' = before[id]]_vars

\* C12: a session does not stay in status connecting forever: when its channel
\* never opens, the fail-fast timer has the channel finish, the channel answers
\* with Close, and the status leaves connecting (for idle).
C12_ConnectingEnds ==
  (Status(current) = "connecting") ~> (Status(current) # "connecting")

\* C13: when the channel of the current (not yet closed) session reports an
\* error, that step tears the session down as stop() does: closed is set, the
\* channel is told to finish, a running audio source is signalled, and the
\* status is idle.
C13_ErrorTearsDown ==
  [][lastOp'.op = "error" /\ current.connection # Null /\ ~current.closed =>
        /\ current'.closed
        /\ conn'[current.connection].finished
        /\ current.ff # Null => Has(ff'[current.ff].signals, "SIGINT")
        /\ Status(current') = "idle"]_vars

\* C14: when the audio source of the session exits, the channel of that session
\* has been told to finish and, the channel answering with Close, the snapshot
\* status eventually is idle.
C14_SourceExitEnds ==
  ff[1].exited ~> (conn[1].finished /\ Status(current) = "idle")

\* C15: every step that changes a value the snapshot reports (status, mode,
\* wordsCount, speakerDurations, ingested bytes) emits in that step an analytics
\* notification, and its last one carries the new values.
C15_ChangeIsNotified ==
  [][analyticsSnapshot(current') # analyticsSnapshot(current) =>
        /\ emitted' # <<>>
        /\ emitted'[Len(emitted')] = analyticsSnapshot(current')]_vars

\* C16: while the session record is closed no audio source is started for it
\* and no chunk is counted in its bytesSent or handed to its channel; a late
\* Open after stop() spawns nothing.
C16_ClosedTakesNoAudio ==
  [][current.closed /\ current'.sid = current.sid =>
        /\ ~(current.ff = Null /\ current'.ff # Null)
        /\ \A f \in StartIds : ff'[f].spawned = ff[f].spawned
        /\ current'.bytesSent = current.bytesSent
        /\ sent' = sent]_vars

\* C17: the fail-fast timer armed by a start finishes no channel other than
\* the one of the session that armed it.
C17_FailfastOwnSession ==
  [][TimerStep("failfast") =>
        \A c \in StartIds : c # FirstTimer("failfast").by =>
            conn'[c].finished = conn[c].finished]_vars

\* C18: bytesSent of the session equals the total length of the chunks that
\* were handed to the channel of that session: a chunk whose send failed, or
\* one produced by the child of an earlier session, is not counted.
C18_BytesAreSentBytes == current.bytesSent = sent

\* the whitespace-delimited tokens of a text, counted at the last character of
\* each run of non-blank characters
WhitespaceTokens(text) ==
  Cardinality({i \in 1..Len(text) :
                 text[i] # " " /\ (i = Len(text) \/ text[i + 1] = " ")})

\* the Transcript event handled in the step had text and words
FullEventStep ==
  TranscriptStep /\ lastOp'.data.transcript # <<>> /\ lastOp'.data.words # <<>>
\* the Transcript event handled in the step had no text or no words
EmptyEventStep ==
  TranscriptStep /\ (lastOp'.data.transcript = <<>> \/ lastOp'.data.words = <<>>)

\* C19: every recognition event with non-empty text and non-empty words, final
\* or interim, adds to wordsCount exactly the number of whitespace-delimited
\* tokens of its text; within a session wordsCount never decreases and changes
\* in no other step.
C19_WordsCounted ==
  [][/\ FullEventStep =>
          current'.wordsCount = current.wordsCount + WhitespaceTokens(lastOp'.data.transcript)
     /\ current'.sid = current.sid => current'.wordsCount >= current.wordsCount
     /\ current'.sid = current.sid /\ current'.wordsCount # current.wordsCount
          => FullEventStep]_vars

\* an interim event with two tokens among blanks was counted after a final
\* event with one token
C19_Witness ==
  /\ lastOp.op = "interim" /\ lastOp.data.transcript = <<" ", "a", " ", " ", "a">>
  /\ current.wordsCount = 3 /\ Duration("0") > 0

\* C20: a recognition event whose text is empty or whose words list is empty is
\* ignored entirely: the session record (wordsCount, speakerDurations, pending
\* partial, lifecycle flags) and the adapters are unchanged and nothing is
\* emitted.
C20_EmptyEventIgnored ==
  [][EmptyEventStep =>
        /\ current' = current
        /\ conn' = conn /\ ff' = ff /\ timers' = timers /\ calls' = calls
        /\ emitted' = <<>>]_vars

\* an event with text and no words, and one with words and no text, were
\* dropped on a streaming session that has a pending partial and a count
C20_Witness ==
  /\ lastOp.op \in {"final", "interim"} /\ lastOp.data.transcript = <<>>
  /\ lastOp.data.words # <<>> /\ emitted = <<>>
  /\ Status(current) = "streaming" /\ current.wordsCount > 0
  /\ current.lastPartialSpeaker # NoSpeaker

\* a partial event with text and words was handled in the step
PartialStep == FullEventStep /\ ~lastOp'.data.is_final

\* C21: on a partial event the pending partial is reset to the event's speaker
\* and first-word start exactly when that speaker differs from the pending one
\* (or none is pending) and is otherwise unchanged; the partial notification
\* carries the first-word start of the earliest partial of the current run of
\* partials of that speaker.
C21_PartialAnchored ==
  [][PartialStep =>
        /\ IF current.lastPartialSpeaker # Attributed(lastOp'.data)
           THEN /\ current'.lastPartialSpeaker = Attributed(lastOp'.data)
                /\ current'.lastPartialStart = lastOp'.data.words[1].start
           ELSE /\ current'.lastPartialSpeaker = current.lastPartialSpeaker
                /\ current'.lastPartialStart = current.lastPartialStart
        /\ Len(emitted') = 1 /\ emitted'[1].type = "partial"
        /\ emitted'[1].speaker = run'.speaker
        /\ emitted'[1].start = run'.start]_vars

\* a second partial of speaker "0" whose first word starts later was announced
\* with the start of the first partial
C21_Witness ==
  /\ lastOp.op = "interim" /\ lastOp.data.words # <<>>
  /\ lastOp.data.words[1].start = 2
  /\ Len(emitted) = 1 /\ emitted[1].type = "partial"
  /\ emitted[1].speaker = "0" /\ emitted[1].start = 0
  /\ current.lastPartialStart = 0

\* a final event with text and words was handled in the step
FinalStep == FullEventStep /\ lastOp'.data.is_final

\* C22: a final event clears the pending partial and emits exactly two
\* notifications: first a final notification whose speakerDurations already
\* holds the duration just added, then an analytics snapshot.
C22_FinalNotifies ==
  [][FinalStep =>
        /\ current'.lastPartialSpeaker = NoSpeaker
        /\ current'.lastPartialStart = NullTime
        /\ Len(emitted') = 2
        /\ emitted'[1].type = "final"
        /\ emitted'[1].speakerDurations = current'.speakerDurations
        /\ MapGet(emitted'[1].speakerDurations, Attributed(lastOp'.data))
             = MapGet(current.speakerDurations, Attributed(lastOp'.data))
               + Counted(lastOp'.data)
        /\ emitted'[2] = analyticsSnapshot(current')]_vars

\* the second event of a session was a final of two seconds for speaker "0":
\* a final notification carrying the new total, then the analytics snapshot
C22_Witness ==
  /\ lastOp.op = "final" /\ nEvents = 2 /\ lastOp.data.words = <<Word(0, 2, "0")>>
  /\ Len(emitted) = 2 /\ emitted[1].type = "final" /\ emitted[2].type = "analytics"
  /\ emitted[1].speakerDurations = emitted[2].speakerDurations
  /\ MapGet(emitted[1].speakerDurations, "0") = 3
  /\ current.lastPartialSpeaker = NoSpeaker

\* C23: in every reachable state a session whose closed flag is true holds no
\* channel connection and no audio source, and its snapshot status is idle.
C23_ClosedHoldsNothing ==
  current.closed =>
    /\ current.connection = Null
    /\ current.ff = Null
    /\ Status(current) = "idle"

\* nothing is live and the snapshot reports idle
Quiet == Status(current) = "idle" /\ LiveConns = {} /\ LiveFfs = {}

\* C24: after a stop() request that follows the only start() (no start() is
\* made after it), eventually no channel adapter and no audio source is live
\* and the snapshot status is idle, and it stays so; also when the start() was
\* still awaiting URL resolution at the time of the stop().
C24_StopIsEffective ==
  (lastOp.op = "stop" /\ calls[1] # "none") ~> []Quiet

\* C25: the SIGTERM and SIGKILL timers armed by a stop() signal no audio source
\* other than the one that stop() was stopping.
C25_EscalationOwnSource ==
  [][\A kind \in {"SIGTERM", "SIGKILL"} : TimerStep(kind) =>
        \A f \in StartIds : f # FirstTimer(kind).target =>
            ff'[f].signals = ff[f].signals]_vars

\* C26: the session has an audio source only if it is opened and its own
\* channel has signalled Open, and startTimeMs is non-null exactly when opened
\* is true.
C26_SourceOnlyAfterOpen ==
  /\ current.ff # Null =>
        /\ current.opened
        /\ current.sid \in StartIds /\ conn[current.sid].opened
  /\ current.opened <=> current.startTimeMs # Null

====
